---- MODULE Spec2Model ----
(***************************************************************************)
(* The expert hunt engine of the Slack support bot                         *)
(* (src/src/services/hunt_service.py) with the expert directory it queries *)
(* (src/src/models/sme.py).                                                *)
(*                                                                         *)
(* HuntService has no lock: its methods run on the request handlers'       *)
(* threads and on the timeout thread, and interleave between any two       *)
(* reads or writes of shared state.  Each action below is one such step.   *)
(* Two reads are merged into one step only where the fields read are       *)
(* monotone (is_expired only ever goes False -> True, accepted_by only     *)
(* ever leaves None, time only grows), so that the merged read admits the  *)
(* same outcomes as the separate reads.                                    *)
(***************************************************************************)
EXTENDS Integers, Sequences, FiniteSets, TLC

(***************************************************************************)
(* Bounds of the model.                                                    *)
(***************************************************************************)
\* hunts created (HuntRequest objects constructed) in one behaviour
MaxHunts == 2
\* the clock (minutes) stops advancing here
MaxTime == 2

\* settings.hunt_timeout_minutes: HUNT_TIMEOUT_MINUTES of the environment
\* (30 when unset).  The model runs with HUNT_TIMEOUT_MINUTES=1, so that a
\* hunt with the default timeout can time out before the clock stops.
hunt_timeout_minutes == 1

\* request-handler threads (Slack Bolt runs listeners on a thread pool)
Callers == {"c1", "c2"}
\* ticket ids
TicketIds == {"t-1", "t-2"}
\* the (user_id, user_name) pairs of the actors that issue claims
Actors == {<<"A", "Alice">>, <<"B", "Bob">>}
\* timeout_minutes arguments of start_hunt (<<>>: None, not given)
TimeoutArgs == {<<>>, <<2>>}
\* required_expertise arguments of start_hunt
ExpertiseArgs == {<<"billing">>, <<>>}
\* UserLevel values
UserLevels == {"vip", "standard", "regular"}

(***************************************************************************)
(* Expert directory (src/src/models/sme.py)                                *)
(***************************************************************************)
\* str.lower() on the tags the model uses
Lower(s) == CASE s = "Billing" -> "billing"
              [] s = "API" -> "api"
              [] OTHER -> s

RECURSIVE SumSeq(_)
SumSeq(s) == IF s = <<>> THEN 0 ELSE Head(s) + SumSeq(Tail(s))

SeqRange(s) == {s[i] : i \in DOMAIN s}

\* SubjectMatterExpert.has_any_expertise
has_any_expertise(e, required_expertise) ==
    IF required_expertise = <<>> THEN TRUE
    ELSE LET required_set == {Lower(x) : x \in SeqRange(required_expertise)}
             expertise_set == {Lower(x) : x \in SeqRange(e.expertise)}
         IN  (required_set \cap expertise_set) # {}

\* SubjectMatterExpert.get_rating_for_expertise
get_rating_for_expertise(e, expertise) ==
    IF Lower(expertise) \in DOMAIN e.skills_rating
    THEN e.skills_rating[Lower(expertise)] ELSE 0

\* (mutant) availability by the flag alone
is_available_flag(e) == e.availability

\* SubjectMatterExpert.is_available
is_available(e) == e.availability /\ e.current_load < e.max_concurrent_issues

\* the sort key of find_experts_by_expertise and of the VIP re-rank
SortKey(e, required_expertise) ==
    << SumSeq([i \in DOMAIN required_expertise |->
                  get_rating_for_expertise(e, required_expertise[i])]),
       0 - e.current_load >>

\* Python's tuple comparison k1 > k2 on the two-element keys
KeyGreater(k1, k2) == k1[1] > k2[1] \/ (k1[1] = k2[1] /\ k1[2] > k2[2])

\* (mutant) a sort that is not stable: an element goes before the elements
\* of equal key
RECURSIVE InsertDescUnstable(_, _, _)
InsertDescUnstable(e, sorted, req) ==
    IF sorted = <<>> THEN <<e>>
    ELSE IF ~KeyGreater(SortKey(Head(sorted), req), SortKey(e, req))
         THEN <<e>> \o sorted
         ELSE <<Head(sorted)>> \o InsertDescUnstable(e, Tail(sorted), req)

\* list.sort(key=..., reverse=True): descending by key, equal keys keep
\* their order (Python's sort is stable, also with reverse=True)
RECURSIVE InsertDesc(_, _, _)
InsertDesc(e, sorted, req) ==
    IF sorted = <<>> THEN <<e>>
    ELSE IF KeyGreater(SortKey(e, req), SortKey(Head(sorted), req))
         THEN <<e>> \o sorted
         ELSE <<Head(sorted)>> \o InsertDesc(e, Tail(sorted), req)

RECURSIVE SortDesc(_, _)
SortDesc(s, req) ==
    IF s = <<>> THEN <<>>
    ELSE InsertDesc(s[Len(s)], SortDesc(SubSeq(s, 1, Len(s) - 1), req), req)

\* SMEDatabase.find_experts_by_expertise
find_experts_by_expertise(db, required_expertise, available_only) ==
    LET Match(e) == (~available_only \/ is_available(e))
                    /\ has_any_expertise(e, required_expertise)
        matching_experts == SelectSeq(db, Match)
    IN  SortDesc(matching_experts, required_expertise)

\* (mutant) _find_experts_for_hunt without the second query
find_experts_for_hunt_available(db, user_level, required_expertise) ==
    find_experts_by_expertise(db, required_expertise, TRUE)

\* (mutant) _find_experts_for_hunt that asks for every expert at once
find_experts_for_hunt_any(db, user_level, required_expertise) ==
    find_experts_by_expertise(db, required_expertise, FALSE)

\* HuntService._find_experts_for_hunt
find_experts_for_hunt(db, user_level, required_expertise) ==
    LET found == find_experts_by_expertise(db, required_expertise, TRUE)
        experts == IF user_level = "vip"
                   THEN SortDesc(found, required_expertise) ELSE found
    IN  IF experts = <<>>
        THEN find_experts_by_expertise(db, required_expertise, FALSE)
        ELSE experts

\* The directory loaded by init_services: A and B can take work, C is
\* switched off.
Expert(id, name, tags, avail, rating, load) ==
    [slack_id |-> id, name |-> name, expertise |-> tags,
     availability |-> avail, skills_rating |-> rating,
     current_load |-> load, max_concurrent_issues |-> 3]

LoadedDirectory ==
    << Expert("A", "Alice", <<"billing">>, TRUE, [x \in {"billing"} |-> 3], 0),
       Expert("B", "Bob", <<"Billing", "api">>, TRUE, [x \in {"billing"} |-> 5], 1),
       Expert("C", "Carol", <<"api">>, FALSE, [x \in {"api"} |-> 4], 0) >>

(***************************************************************************)
(* State                                                                   *)
(***************************************************************************)
VARIABLES
    now,            \* datetime.now(), in minutes
    sme_database,   \* SMEDatabase.experts, the directory
    hunts,          \* every HuntRequest constructed so far; a hunt is its index
    active_hunts,   \* HuntService.active_hunts: a dict, as its <<key, hunt>>
                    \* items in insertion order
    running,        \* HuntService._running
    threads,        \* HuntService._timeout_thread (0: None; 1: the thread
                    \* init_services started, whose state is sweep; i > 1:
                    \* a thread a later start() created) and, in later,
                    \* where each thread of a later start() stands
    pc,             \* where each request-handler thread stands
    frame,          \* the arguments and locals of each handler's call
    sweep,          \* the timeout thread: position and locals
    log             \* per hunt, what was observed from outside: the
                    \* on_accept and on_timeout invocations, the
                    \* accept_hunt calls that returned True, whether
                    \* a cancel_hunt removed it from the active set,
                    \* the timeout_minutes start_hunt was called with,
                    \* and whether a start_hunt replaced it while active

vars == <<now, sme_database, hunts, active_hunts, running, threads, pc, frame,
          sweep, log>>

HuntIds == 1..Len(hunts)

\* ---- dict operations on active_hunts ----
\* key in d
DictHas(d, k) == \E i \in DOMAIN d : d[i][1] = k
\* d[key] (only where the key is present)
DictGet(d, k) == d[CHOOSE i \in DOMAIN d : d[i][1] = k][2]
\* (mutant) d.setdefault(key, value): a present key keeps its value
DictSetDefault(d, k, v) == IF DictHas(d, k) THEN d ELSE Append(d, <<k, v>>)

\* d[key] = value: a present key keeps its place, a new one goes last
DictSet(d, k, v) ==
    IF DictHas(d, k)
    THEN [i \in DOMAIN d |-> IF d[i][1] = k THEN <<k, v>> ELSE d[i]]
    ELSE Append(d, <<k, v>>)
\* d.pop(key, None)
DictPop(d, k) ==
    LET Keep(p) == p[1] # k
    IN  SelectSeq(d, Keep)

\* d.get(key): the value, or 0 for None
DictLookup(d, k) == IF DictHas(d, k) THEN DictGet(d, k) ELSE 0

\* HuntService.get_active_hunt: the hunt, or 0 for None
get_active_hunt(ticket_id) == DictLookup(active_hunts, ticket_id)

\* HuntRequest.__init__; timeout_arg is <<>> when the caller gave None
\* (`timeout_minutes or settings.hunt_timeout_minutes`: None and 0 are falsy)
HuntRequest(ticket_id, timeout_arg) ==
    LET timeout_minutes == IF timeout_arg = <<>> \/ timeout_arg = <<0>>
                           THEN hunt_timeout_minutes ELSE timeout_arg[1]
    IN  [ticket_id |-> ticket_id,
         timeout_minutes |-> timeout_minutes,
         created_at |-> now,
         expires_at |-> now + timeout_minutes,
         notified_experts |-> {},
         accepted_by |-> "None",
         is_expired |-> FALSE]

\* (mutant) timed out from the expiry time on
is_timed_out_inclusive(h) == now >= hunts[h].expires_at

\* HuntRequest.is_timed_out
is_timed_out(h) == now > hunts[h].expires_at

\* (mutant) an accept that also refuses a hunt past its expiry time
accept_allowed_in_time(h) ==
    ~hunts[h].is_expired /\ hunts[h].accepted_by = "None" /\ ~is_timed_out(h)

\* the test of HuntRequest.accept: neither expired nor accepted yet
accept_allowed(h) == ~hunts[h].is_expired /\ hunts[h].accepted_by = "None"

\* the test of HuntRequest.expire
expire_allowed(h) == ~hunts[h].is_expired /\ hunts[h].accepted_by = "None"

\* the test of the sweep's loop body
sweep_selects(h) == is_timed_out(h) /\ ~hunts[h].is_expired

\* the most recently started hunt of a ticket id (0: none)
LatestHunt(ticket_id) ==
    LET S == {h \in HuntIds : hunts[h].ticket_id = ticket_id}
    IN  IF S = {} THEN 0 ELSE CHOOSE h \in S : \A g \in S : g <= h

\* the settlement of a hunt (0: no hunt)
Settlement(h) ==
    IF h = 0 THEN "no hunt"
    ELSE IF hunts[h].is_expired THEN "expired"
    ELSE IF hunts[h].accepted_by # "None" THEN "accepted"
    ELSE "unsettled"

\* A call's arguments and locals, its result (ret), and what an accept_hunt
\* call found as it started: expired0, the latest hunt of its ticket id if
\* that hunt was expired (else 0), and unsettled0, the active hunt of its
\* ticket id if that hunt was unsettled (else 0).  todo holds the slack ids
\* of a list of experts, in the list's order, and replies the messages a
\* command handler has sent to the actor with say().
\* The values json.loads gives a key of the classifier's extracted_info:
\* the key is absent, null (None), a list of tags, or a string
Absent == [type |-> "absent", items |-> <<>>]
None == [type |-> "null", items |-> <<>>]
List(items) == [type |-> "list", items |-> items]
Str(s) == [type |-> "str", items |-> <<s>>]

\* Python's truth value of such a value (`not expertise_areas`)
Truthy(v) == CASE v.type = "list" -> v.items # <<>>
               [] v.type = "str" -> v.items # <<"">>
               [] OTHER -> FALSE

\* an extracted_info with neither key
NoInfo == [expertise_areas |-> Absent, topic |-> Absent]

IdleFrame ==
    [ticket_id |-> "none", expert_id |-> "none", expert_name |-> "none",
     required_expertise |-> <<>>, available_only |-> FALSE,
     user_level |-> "none", priority |-> "none",
     extracted_info |-> NoInfo, expertise_areas |-> Absent,
     hunt |-> 0, todo |-> <<>>, ret |-> "none", expired0 |-> 0, unsettled0 |-> 0,
     replies |-> <<>>]

IdleSweep == [pc |-> "while", items |-> <<>>, ticket_id |-> "none", hunt |-> 0,
              expired_hunts |-> <<>>]

EmptyLog == [on_accept |-> <<>>, on_timeout |-> 0, returned_true |-> <<>>,
             cancelled |-> FALSE, timeout_arg |-> <<>>, replaced |-> FALSE]

\* HuntService after __init__ and one start(): the thread it created is
\* the timeout thread
StartedOnce == [timeout_thread |-> 1, later |-> <<>>]

\* The state once init_services has run: the directory loaded, the service
\* constructed and started (its timeout thread at the top of its loop).
Init ==
    /\ now = 0
    /\ sme_database = LoadedDirectory
    /\ hunts = <<>>
    /\ active_hunts = <<>>
    /\ running = TRUE
    /\ threads = StartedOnce
    /\ pc = [c \in Callers |-> "idle"]
    /\ frame = [c \in Callers |-> IdleFrame]
    /\ sweep = IdleSweep
    /\ log = <<>>

\* the frame of a call as it starts
CallFrame(ticket_id, expert_id, expert_name) ==
    [IdleFrame EXCEPT !.ticket_id = ticket_id,
                      !.expert_id = expert_id, !.expert_name = expert_name]

\* the frame of an accept_hunt call as it starts
AcceptFrame(ticket_id, expert_id, expert_name) ==
    LET latest == LatestHunt(ticket_id)
        active == get_active_hunt(ticket_id)
    IN  [CallFrame(ticket_id, expert_id, expert_name) EXCEPT
            !.expired0 = IF Settlement(latest) = "expired" THEN latest ELSE 0,
            !.unsettled0 = IF Settlement(active) = "unsettled" THEN active ELSE 0]

\* the call returns ret (or raises it): its thread stands at "done" with the
\* name of the operation
Finish(c, op, f, ret) ==
    /\ pc' = [pc EXCEPT ![c] = op]
    /\ frame' = [frame EXCEPT ![c] = [f EXCEPT !.ret = ret]]

(***************************************************************************)
(* The clock                                                               *)
(***************************************************************************)
Tick ==
    /\ now < MaxTime
    /\ now' = now + 1
    /\ UNCHANGED <<sme_database, hunts, active_hunts, running, threads, pc, frame, sweep, log>>

(***************************************************************************)
(* HuntService.accept_hunt, on a request-handler thread                    *)
(***************************************************************************)
\* (mutant) accept_hunt without its membership test
AcceptHuntEnterUntested(c, ticket_id, actor) ==
    /\ pc[c] = "idle"
    /\ pc' = [pc EXCEPT ![c] = "accept_lookup"]
    /\ frame' = [frame EXCEPT ![c] = AcceptFrame(ticket_id, actor[1], actor[2])]
    /\ UNCHANGED <<now, sme_database, hunts, active_hunts, running, threads, sweep, log>>

\* `if ticket_id not in self.active_hunts: return False`
AcceptHuntEnter(c, ticket_id, actor) ==
    /\ pc[c] = "idle"
    /\ LET f == AcceptFrame(ticket_id, actor[1], actor[2])
       IN  IF ~DictHas(active_hunts, ticket_id)
           THEN Finish(c, "accept_done", f, "False")
           ELSE /\ pc' = [pc EXCEPT ![c] = "accept_lookup"]
                /\ frame' = [frame EXCEPT ![c] = f]
    /\ UNCHANGED <<now, sme_database, hunts, active_hunts, running, threads, sweep, log>>

\* `hunt = self.active_hunts[ticket_id]`: KeyError when the key has gone
AcceptHuntLookup(c) ==
    /\ pc[c] = "accept_lookup"
    /\ IF DictHas(active_hunts, frame[c].ticket_id)
       THEN /\ pc' = [pc EXCEPT ![c] = "accept_test"]
            /\ frame' = [frame EXCEPT ![c].hunt =
                             DictGet(active_hunts, frame[c].ticket_id)]
       ELSE Finish(c, "accept_done", frame[c], "KeyError")
    /\ UNCHANGED <<now, sme_database, hunts, active_hunts, running, threads, sweep, log>>

\* (mutant) an accept that refuses an expert who was not notified
AcceptTestCandidate(c) ==
    /\ pc[c] = "accept_test"
    /\ IF /\ accept_allowed(frame[c].hunt)
          /\ frame[c].expert_id \in hunts[frame[c].hunt].notified_experts
       THEN /\ pc' = [pc EXCEPT ![c] = "accept_set"]
            /\ UNCHANGED frame
       ELSE Finish(c, "accept_done", frame[c], "False")
    /\ UNCHANGED <<now, sme_database, hunts, active_hunts, running, threads, sweep, log>>

\* HuntRequest.accept, its two tests; on failure accept_hunt returns False
AcceptTest(c) ==
    /\ pc[c] = "accept_test"
    /\ IF accept_allowed(frame[c].hunt)
       THEN /\ pc' = [pc EXCEPT ![c] = "accept_set"]
            /\ UNCHANGED frame
       ELSE Finish(c, "accept_done", frame[c], "False")
    /\ UNCHANGED <<now, sme_database, hunts, active_hunts, running, threads, sweep, log>>

\* (mutant) an accept that counts the hunt on the winner's load
experts_after_accept_loaded(db, expert_id) ==
    [i \in DOMAIN db |->
        IF db[i].slack_id = expert_id
        THEN [db[i] EXCEPT !.current_load = @ + 1] ELSE db[i]]

\* the directory after HuntRequest.accept, which writes accepted_by on the
\* hunt and nothing on any expert
experts_after_accept(db, expert_id) == db

\* HuntRequest.accept: `self.accepted_by = expert_id`
AcceptSet(c) ==
    /\ pc[c] = "accept_set"
    /\ hunts' = [hunts EXCEPT ![frame[c].hunt].accepted_by = frame[c].expert_id]
    /\ sme_database' = experts_after_accept(sme_database, frame[c].expert_id)
    /\ pc' = [pc EXCEPT ![c] = "accept_callback"]
    /\ UNCHANGED <<now, active_hunts, running, threads, frame, sweep, log>>

\* (mutant) the callback's arguments in the wrong order
accept_callback_args_swapped(expert_id, expert_name) == <<expert_name, expert_id>>

\* the arguments HuntRequest.accept hands to on_accept_callback
accept_callback_args(expert_id, expert_name) == <<expert_id, expert_name>>

\* HuntRequest.accept: `self.on_accept_callback(expert_id, expert_name)`
AcceptCallback(c) ==
    /\ pc[c] = "accept_callback"
    /\ log' = [log EXCEPT ![frame[c].hunt].on_accept =
                  Append(@, accept_callback_args(frame[c].expert_id,
                                                 frame[c].expert_name))]
    /\ pc' = [pc EXCEPT ![c] = "accept_pop"]
    /\ UNCHANGED <<now, sme_database, hunts, active_hunts, running, threads, frame, sweep>>

\* `if success: self.active_hunts.pop(ticket_id, None)`, `return success`
AcceptHuntPop(c) ==
    /\ pc[c] = "accept_pop"
    /\ active_hunts' = DictPop(active_hunts, frame[c].ticket_id)
    /\ log' = [log EXCEPT ![frame[c].hunt].returned_true =
                  Append(@, <<frame[c].expert_id, frame[c].expert_name>>)]
    /\ Finish(c, "accept_done", frame[c], "True")
    /\ UNCHANGED <<now, sme_database, hunts, running, threads, sweep>>

(***************************************************************************)
(* HuntService.cancel_hunt                                                 *)
(***************************************************************************)
\* `if ticket_id in self.active_hunts:`
CancelHuntEnter(c, ticket_id) ==
    /\ pc[c] = "idle"
    /\ LET f == CallFrame(ticket_id, "none", "none")
       IN  IF DictHas(active_hunts, ticket_id)
           THEN /\ pc' = [pc EXCEPT ![c] = "cancel_pop"]
                /\ frame' = [frame EXCEPT ![c] = f]
           ELSE Finish(c, "cancel_done", f, "None")
    /\ UNCHANGED <<now, sme_database, hunts, active_hunts, running, threads, sweep, log>>

\* (mutant) a cancel_hunt that expires the hunt it removes
CancelHuntPopExpiring(c) ==
    /\ pc[c] = "cancel_pop"
    /\ active_hunts' = DictPop(active_hunts, frame[c].ticket_id)
    /\ LET h == get_active_hunt(frame[c].ticket_id)
       IN  IF h = 0 THEN UNCHANGED <<hunts, log>>
           ELSE /\ hunts' = [hunts EXCEPT ![h].is_expired = TRUE]
                /\ log' = [log EXCEPT ![h].cancelled = TRUE,
                                      ![h].on_timeout = @ + 1]
    /\ Finish(c, "cancel_done", frame[c], "None")
    /\ UNCHANGED <<now, sme_database, running, threads, sweep>>

\* `self.active_hunts.pop(ticket_id, None)`
CancelHuntPop(c) ==
    /\ pc[c] = "cancel_pop"
    /\ active_hunts' = DictPop(active_hunts, frame[c].ticket_id)
    /\ log' = IF DictHas(active_hunts, frame[c].ticket_id)
              THEN [log EXCEPT ![DictGet(active_hunts, frame[c].ticket_id)].cancelled = TRUE]
              ELSE log
    /\ Finish(c, "cancel_done", frame[c], "None")
    /\ UNCHANGED <<now, sme_database, hunts, running, threads, sweep>>

(***************************************************************************)
(* HuntService.start_hunt                                                  *)
(***************************************************************************)
\* the HuntRequest is constructed and stored under ticket.id, and the
\* candidates are read from the directory (which no hunt operation writes)
StartHuntStore(c, ticket_id, required_expertise, user_level, timeout_arg) ==
    /\ pc[c] = "idle"
    /\ Len(hunts) < MaxHunts
    /\ LET h == Len(hunts) + 1
           experts == find_experts_for_hunt(sme_database, user_level,
                                            required_expertise)
           f == [CallFrame(ticket_id, "none", "none") EXCEPT
                    !.required_expertise = required_expertise]
       IN  /\ hunts' = Append(hunts, HuntRequest(ticket_id, timeout_arg))
           /\ log' = Append([g \in HuntIds |->
                                [log[g] EXCEPT !.replaced =
                                    @ \/ get_active_hunt(ticket_id) = g]],
                            [EmptyLog EXCEPT !.timeout_arg = timeout_arg])
           /\ active_hunts' = DictSet(active_hunts, ticket_id, h)
           /\ frame' = [frame EXCEPT ![c] =
                           [f EXCEPT !.hunt = h,
                                     !.todo = [i \in DOMAIN experts |->
                                                  experts[i].slack_id]]]
           /\ pc' = [pc EXCEPT ![c] = "start_mark"]
    /\ UNCHANGED <<now, sme_database, running, threads, sweep>>

\* `for expert in experts: hunt.mark_notified(expert.slack_id)`, `return hunt`
\* (nothing in the service reads notified_experts, and the list is the
\* call's own: the additions are one step)
StartHuntMark(c) ==
    /\ pc[c] = "start_mark"
    /\ hunts' = [hunts EXCEPT ![frame[c].hunt].notified_experts =
                     @ \cup SeqRange(frame[c].todo)]
    /\ Finish(c, "start_done", [frame[c] EXCEPT !.todo = <<>>], "hunt")
    /\ UNCHANGED <<now, sme_database, active_hunts, running, threads, sweep, log>>

\* the handler has returned (or raised) and its thread is free again
Return(c) ==
    /\ pc[c] \in {"accept_done", "cancel_done", "start_done", "find_done",
                 "claim_done", "service_done", "experts_done", "sme_done"}
    /\ pc' = [pc EXCEPT ![c] = "idle"]
    /\ frame' = [frame EXCEPT ![c] = IdleFrame]
    /\ UNCHANGED <<now, sme_database, hunts, active_hunts, running, threads, sweep, log>>

(***************************************************************************)
(* HuntService._monitor_timeouts, on the timeout thread                    *)
(***************************************************************************)
\* `while self._running:`
SweepWhile ==
    /\ sweep.pc = "while"
    /\ sweep' = [sweep EXCEPT !.pc = IF running THEN "list" ELSE "exited"]
    /\ UNCHANGED <<now, sme_database, hunts, active_hunts, running, threads, pc, frame, log>>

\* `expired_hunts = []`, `list(self.active_hunts.items())`
SweepList ==
    /\ sweep.pc = "list"
    /\ sweep' = [sweep EXCEPT !.pc = "for", !.items = active_hunts,
                              !.expired_hunts = <<>>]
    /\ UNCHANGED <<now, sme_database, hunts, active_hunts, running, threads, pc, frame, log>>

\* the loop over the snapshot: `if hunt.is_timed_out() and not hunt.is_expired`
SweepFor ==
    /\ sweep.pc = "for"
    /\ IF sweep.items = <<>>
       THEN sweep' = [sweep EXCEPT !.pc = "remove"]
       ELSE LET item == Head(sweep.items)
            IN  IF sweep_selects(item[2])
                THEN sweep' = [sweep EXCEPT !.pc = "expire_test",
                                            !.ticket_id = item[1],
                                            !.hunt = item[2],
                                            !.items = Tail(@)]
                ELSE sweep' = [sweep EXCEPT !.items = Tail(@)]
    /\ UNCHANGED <<now, sme_database, hunts, active_hunts, running, threads, pc, frame, log>>

\* what the loop body does after hunt.expire() has returned:
\* `expired_hunts.append(ticket_id)`
SweepAppend(sw) ==
    [sw EXCEPT !.pc = "for", !.expired_hunts = Append(@, sw.ticket_id),
               !.ticket_id = "none", !.hunt = 0]

\* HuntRequest.expire: `if not self.is_expired and not self.accepted_by:`
ExpireTest ==
    /\ sweep.pc = "expire_test"
    /\ IF expire_allowed(sweep.hunt)
       THEN sweep' = [sweep EXCEPT !.pc = "expire_set"]
       ELSE sweep' = SweepAppend(sweep)
    /\ UNCHANGED <<now, sme_database, hunts, active_hunts, running, threads, pc, frame, log>>

\* HuntRequest.expire: `self.is_expired = True`
ExpireSet ==
    /\ sweep.pc = "expire_set"
    /\ hunts' = [hunts EXCEPT ![sweep.hunt].is_expired = TRUE]
    /\ sweep' = [sweep EXCEPT !.pc = "expire_callback"]
    /\ UNCHANGED <<now, sme_database, active_hunts, running, threads, pc, frame, log>>

\* HuntRequest.expire: `self.on_timeout_callback()`
ExpireCallback ==
    /\ sweep.pc = "expire_callback"
    /\ log' = [log EXCEPT ![sweep.hunt].on_timeout = @ + 1]
    /\ sweep' = SweepAppend(sweep)
    /\ UNCHANGED <<now, sme_database, hunts, active_hunts, running, threads, pc, frame>>

\* `for ticket_id in expired_hunts: self.active_hunts.pop(ticket_id, None)`,
\* one pop a step; after the last, `time.sleep(10)` and the top of the loop
SweepRemove ==
    /\ sweep.pc = "remove"
    /\ IF sweep.expired_hunts = <<>>
       THEN /\ sweep' = [sweep EXCEPT !.pc = "while"]
            /\ UNCHANGED active_hunts
       ELSE /\ active_hunts' = DictPop(active_hunts, Head(sweep.expired_hunts))
            /\ sweep' = [sweep EXCEPT !.expired_hunts = Tail(@)]
    /\ UNCHANGED <<now, sme_database, hunts, running, threads, pc, frame, log>>

(***************************************************************************)
(* The program: handlers on any thread, the timeout thread, the clock      *)
(***************************************************************************)
AcceptHunt(c, tickets) ==
    \/ \E t \in tickets, a \in Actors : AcceptHuntEnter(c, t, a)
    \/ AcceptHuntLookup(c)
    \/ AcceptTest(c)
    \/ AcceptSet(c)
    \/ AcceptCallback(c)
    \/ AcceptHuntPop(c)

CancelHunt(c, tickets) ==
    \/ \E t \in tickets : CancelHuntEnter(c, t)
    \/ CancelHuntPop(c)

StartHunt(c, tickets, expertise, timeouts) ==
    \/ \E t \in tickets, x \in expertise, l \in UserLevels, m \in timeouts :
          StartHuntStore(c, t, x, l, m)
    \/ StartHuntMark(c)

MonitorTimeouts ==
    \/ SweepWhile
    \/ SweepList
    \/ SweepFor
    \/ ExpireTest
    \/ ExpireSet
    \/ ExpireCallback
    \/ SweepRemove

\* Spec: every handler on every thread and the timeout thread, interleaved
\* step by step, on one ticket id with the default timeout.
Next ==
    \/ \E c \in Callers :
          \/ AcceptHunt(c, {"t-1"})
          \/ CancelHunt(c, {"t-1"})
          \/ StartHunt(c, {"t-1"}, {<<"billing">>}, {<<>>})
          \/ Return(c)
    \/ MonitorTimeouts
    \/ Tick

Spec == Init /\ [][Next]_vars

\* SerialSpec: the same operations on every ticket id and with every
\* argument, one at a time: a handler's call and a pass of the timeout
\* thread run from their first step to their last (for a call: until its
\* thread is free again) with no step of another thread in between.
InCall(c) == pc[c] # "idle"
InPass == sweep.pc \notin {"while", "exited"}
OthersQuiet(c) == ~InPass /\ \A d \in Callers \ {c} : ~InCall(d)
AllQuiet == \A d \in Callers : ~InCall(d)

SerialNext ==
    \/ \E c \in Callers :
          /\ OthersQuiet(c)
          /\ \/ AcceptHunt(c, TicketIds)
             \/ CancelHunt(c, TicketIds)
             \/ StartHunt(c, TicketIds, ExpertiseArgs, TimeoutArgs)
             \/ Return(c)
    \/ AllQuiet /\ MonitorTimeouts
    \/ AllQuiet /\ ~InPass /\ Tick

SerialSpec == Init /\ [][SerialNext]_vars

(***************************************************************************)
(* Fairness: every thread that has a step to take is scheduled again.  The *)
(* timeout thread and the clock always go on; a handler that has started   *)
(* goes on to its return.  Whether a new call is made is up to the users.  *)
(***************************************************************************)
Continue(c) ==
    \/ AcceptHuntLookup(c)
    \/ AcceptTest(c)
    \/ AcceptSet(c)
    \/ AcceptCallback(c)
    \/ AcceptHuntPop(c)
    \/ CancelHuntPop(c)
    \/ StartHuntMark(c)
    \/ Return(c)

FairSpec ==
    /\ Spec
    /\ WF_vars(MonitorTimeouts)
    /\ WF_vars(Tick)
    /\ \A c \in Callers : WF_vars(Continue(c))

(***************************************************************************)
(* ClaimSpec: claims arrive as /claim commands (handle_claim_command of    *)
(* src/src/app.py), on any handler thread, interleaved step by step with   *)
(* the other handlers, while the timeout thread sleeps between two passes. *)
(***************************************************************************)
\* the text of a /claim command
ClaimTexts == {"", " ", "t-1", " t-1 "}

\* str.strip() on those texts
Strip(s) == CASE s = " " -> ""
              [] s = " t-1 " -> "t-1"
              [] OTHER -> s

\* `ack()`, `text = command["text"].strip()`; on an empty text the usage
\* message and `return`, else the call of accept_hunt begins
ClaimCommand(c, text, actor) ==
    IF Strip(text) = ""
    THEN /\ pc[c] = "idle"
         /\ Finish(c, "claim_done",
                   [CallFrame("", actor[1], actor[2]) EXCEPT !.replies = <<"usage">>],
                   "None")
         /\ UNCHANGED <<now, sme_database, hunts, active_hunts, running, threads, sweep, log>>
    ELSE AcceptHuntEnter(c, Strip(text), actor)

\* `if success: say(...) else: say(...)`; an exception out of accept_hunt
\* leaves the handler before either say()
ClaimReply(c) ==
    /\ pc[c] = "accept_done"
    /\ pc' = [pc EXCEPT ![c] = "claim_done"]
    /\ frame' = [frame EXCEPT ![c].replies =
                     IF frame[c].ret = "True" THEN Append(@, "success")
                     ELSE IF frame[c].ret = "False" THEN Append(@, "failure")
                     ELSE @]
    /\ UNCHANGED <<now, sme_database, hunts, active_hunts, running, threads, sweep, log>>

ClaimNext ==
    \E c \in Callers :
          \/ \E x \in ClaimTexts, a \in Actors : ClaimCommand(c, x, a)
          \/ AcceptHuntLookup(c)
          \/ AcceptTest(c)
          \/ AcceptSet(c)
          \/ AcceptCallback(c)
          \/ AcceptHuntPop(c)
          \/ ClaimReply(c)
          \/ CancelHunt(c, {"t-1"})
          \/ StartHunt(c, {"t-1"}, {<<"billing">>}, {<<>>})
          \/ pc[c] # "accept_done" /\ Return(c)

ClaimSpec == Init /\ [][ClaimNext]_vars

(***************************************************************************)
(* TimeoutSpec: start_hunt with every kind of timeout_minutes, zero and    *)
(* negative included, on one ticket id; calls and sweep passes run one at  *)
(* a time.                                                                 *)
(***************************************************************************)
AllTimeoutArgs == {<<>>, <<2>>, <<0>>, <<-1>>}

TimeoutNext ==
    \/ \E c \in Callers :
          /\ OthersQuiet(c)
          /\ \/ AcceptHunt(c, {"t-1"})
             \/ CancelHunt(c, {"t-1"})
             \/ StartHunt(c, {"t-1"}, {<<"billing">>}, AllTimeoutArgs)
             \/ Return(c)
    \/ AllQuiet /\ MonitorTimeouts
    \/ AllQuiet /\ ~InPass /\ Tick

TimeoutSpec == Init /\ [][TimeoutNext]_vars

(***************************************************************************)
(* DirectorySpec: the directory queries on every small directory.  The     *)
(* directory is loaded once, from a file the service does not write; the   *)
(* experts' slack ids are unique.  Calls run one at a time.                *)
(***************************************************************************)
\* experts in a directory
MaxExperts == 3

\* slack ids and names, by position in the directory file
ExpertIds == <<"A", "B", "C", "D">>
ExpertNames == <<"Alice", "Bob", "Carol", "Dan">>

\* what a record of the directory file can hold besides its id and name:
\* <<expertise, availability, skills_rating, current_load>>
ExpertKinds ==
    { << <<"billing">>, TRUE, ("billing" :> 3), 0 >>,
      << <<"Billing", "api">>, TRUE, ("billing" :> 5) @@ ("api" :> 1), 1 >>,
      << <<"api", "billing">>, TRUE, ("billing" :> 1) @@ ("api" :> 5), 0 >>,
      << <<"api">>, FALSE, ("api" :> 4), 0 >>,
      << <<"billing">>, TRUE, ("billing" :> 2), 3 >>,
      << <<"Billing">>, TRUE, ("Billing" :> 5), 0 >> }

\* SMEDatabase.__init__ on the records of a file
Directories ==
    UNION { { [i \in 1..n |-> Expert(ExpertIds[i], ExpertNames[i], k[i][1],
                                      k[i][2], k[i][3], k[i][4])]
              : k \in [1..n -> ExpertKinds] }
            : n \in 0..MaxExperts }

\* required_expertise lists of the queries
DirExpertise == {<<>>, <<"billing">>, <<"Billing">>, <<"API">>, <<"billing", "api">>}

\* a call of sme_database.find_experts_by_expertise
FindExperts(c, required_expertise, available_only) ==
    /\ pc[c] = "idle"
    /\ LET experts == find_experts_by_expertise(sme_database, required_expertise,
                                                available_only)
           f == [IdleFrame EXCEPT !.required_expertise = required_expertise,
                                  !.available_only = available_only,
                                  !.todo = [i \in DOMAIN experts |->
                                               experts[i].slack_id]]
       IN  Finish(c, "find_done", f, "experts")
    /\ UNCHANGED <<now, sme_database, hunts, active_hunts, running, threads, sweep, log>>

\* ticket.priority of the ticket the hunt is for
Priorities == {"high", "medium", "low"}

\* a call of hunt_service._find_experts_for_hunt(user, required_expertise,
\* priority); the method never reads priority
FindExpertsForHunt(c, user_level, required_expertise, priority) ==
    /\ pc[c] = "idle"
    /\ LET experts == find_experts_for_hunt(sme_database, user_level,
                                            required_expertise)
           f == [IdleFrame EXCEPT !.required_expertise = required_expertise,
                                  !.user_level = user_level,
                                  !.priority = priority,
                                  !.todo = [i \in DOMAIN experts |->
                                               experts[i].slack_id]]
       IN  Finish(c, "experts_done", f, "experts")
    /\ UNCHANGED <<now, sme_database, hunts, active_hunts, running, threads, sweep, log>>

DirInit ==
    /\ now = 0
    /\ sme_database \in Directories
    /\ hunts = <<>>
    /\ active_hunts = <<>>
    /\ running = TRUE
    /\ threads = StartedOnce
    /\ pc = [c \in Callers |-> "idle"]
    /\ frame = [c \in Callers |-> IdleFrame]
    /\ sweep = IdleSweep
    /\ log = <<>>

DirNext ==
    \E c \in Callers :
        /\ OthersQuiet(c)
        /\ \/ \E x \in DirExpertise, a \in BOOLEAN : FindExperts(c, x, a)
           \/ StartHunt(c, {"t-1"}, DirExpertise, {<<>>})
           \/ Return(c)

DirectorySpec == DirInit /\ [][DirNext]_vars

(***************************************************************************)
(* RankSpec: _find_experts_for_hunt on every small directory, for every    *)
(* user level and ticket priority.  Calls run one at a time.               *)
(***************************************************************************)
RankNext ==
    \E c \in Callers :
        /\ OthersQuiet(c)
        /\ \/ \E l \in UserLevels, x \in DirExpertise, p \in Priorities :
                 FindExpertsForHunt(c, l, x, p)
           \/ Return(c)

RankSpec == DirInit /\ [][RankNext]_vars

(***************************************************************************)
(* SmeHuntSpec: start_sme_hunt (src/src/app.py) on the extracted_info the  *)
(* classifier can return.  Calls run one at a time.                        *)
(***************************************************************************)
\* extracted_info of analyze_query: parsed_response.get("extracted_info",
\* {}), the JSON the classifier wrote, taken as it is
ExtractedInfos ==
    [expertise_areas : {Absent, None, List(<<>>), List(<<"billing">>),
                        List(<<"api", "billing">>)},
     topic : {Absent, Str("billing"), Str("vpn")}]

\* start_sme_hunt: `expertise_areas = extracted_info.get("expertise_areas",
\* [])`, `if not expertise_areas and "topic" in extracted_info:
\* expertise_areas = [extracted_info["topic"]]`
expertise_areas(extracted_info) ==
    LET got == IF extracted_info.expertise_areas = Absent
               THEN List(<<>>) ELSE extracted_info.expertise_areas
    IN  IF ~Truthy(got) /\ extracted_info.topic # Absent
        THEN List(extracted_info.topic.items)
        ELSE got

\* start_sme_hunt up to the store of start_hunt and its directory query.
\* With required_expertise None has_any_expertise matches every expert
\* (`not required_expertise`) and the sort key's `for exp in
\* required_expertise` raises TypeError as soon as one expert matches; the
\* hunt is stored by then, with nobody notified.
SmeHuntStore(c, ticket_id, extracted_info, user_level) ==
    /\ pc[c] = "idle"
    /\ Len(hunts) < MaxHunts
    /\ LET h == Len(hunts) + 1
           areas == expertise_areas(extracted_info)
           raises == areas.type # "list" /\ sme_database # <<>>
           experts == IF areas.type = "list"
                      THEN find_experts_for_hunt(sme_database, user_level,
                                                 areas.items)
                      ELSE <<>>
           f == [CallFrame(ticket_id, "none", "none") EXCEPT
                    !.required_expertise = areas.items,
                    !.extracted_info = extracted_info,
                    !.expertise_areas = areas,
                    !.hunt = h,
                    !.todo = [i \in DOMAIN experts |-> experts[i].slack_id]]
       IN  /\ hunts' = Append(hunts, HuntRequest(ticket_id, <<>>))
           /\ log' = Append([g \in HuntIds |->
                                [log[g] EXCEPT !.replaced =
                                    @ \/ get_active_hunt(ticket_id) = g]],
                            EmptyLog)
           /\ active_hunts' = DictSet(active_hunts, ticket_id, h)
           /\ IF raises
              THEN Finish(c, "sme_done", f, "TypeError")
              ELSE Finish(c, "sme_mark", f, "none")
    /\ UNCHANGED <<now, sme_database, running, threads, sweep>>

\* start_hunt: `for expert in experts: hunt.mark_notified(...)`, `return hunt`
SmeHuntMark(c) ==
    /\ pc[c] = "sme_mark"
    /\ hunts' = [hunts EXCEPT ![frame[c].hunt].notified_experts =
                     @ \cup SeqRange(frame[c].todo)]
    /\ pc' = [pc EXCEPT ![c] = "sme_say"]
    /\ frame' = [frame EXCEPT ![c].todo = <<>>]
    /\ UNCHANGED <<now, sme_database, active_hunts, running, threads, sweep, log>>

\* start_sme_hunt: the log lines and `say("I've notified our support team
\* ...")`
SmeHuntSay(c) ==
    /\ pc[c] = "sme_say"
    /\ Finish(c, "sme_done", [frame[c] EXCEPT !.replies = <<"notified">>], "None")
    /\ UNCHANGED <<now, sme_database, hunts, active_hunts, running, threads, sweep, log>>

StartSmeHunt(c, tickets, infos) ==
    \/ \E t \in tickets, e \in infos, l \in UserLevels : SmeHuntStore(c, t, e, l)
    \/ SmeHuntMark(c)
    \/ SmeHuntSay(c)

SmeHuntNext ==
    \E c \in Callers :
        /\ OthersQuiet(c)
        /\ \/ StartSmeHunt(c, TicketIds, ExtractedInfos)
           \/ Return(c)

SmeHuntSpec == Init /\ [][SmeHuntNext]_vars

(***************************************************************************)
(* LifecycleSpec: HuntService.start and HuntService.stop called from any   *)
(* thread, interleaved step by step with the timeout threads; no hunt is   *)
(* started, so a pass of a timeout thread finds nothing to expire.         *)
(***************************************************************************)
\* threading.Thread objects created in one behaviour, the first included
MaxThreads == 3

\* start(): `if self._timeout_thread is not None: return`
ServiceStartEnter(c) ==
    /\ pc[c] = "idle"
    /\ IF threads.timeout_thread # 0
       THEN Finish(c, "service_done", IdleFrame, "None")
       ELSE /\ pc' = [pc EXCEPT ![c] = "service_start_set"]
            /\ UNCHANGED frame
    /\ UNCHANGED <<now, sme_database, hunts, active_hunts, running, threads, sweep, log>>

\* start(): `self._running = True`
ServiceStartSet(c) ==
    /\ pc[c] = "service_start_set"
    /\ running' = TRUE
    /\ pc' = [pc EXCEPT ![c] = "service_start_thread"]
    /\ UNCHANGED <<now, sme_database, hunts, active_hunts, threads, frame, sweep, log>>

\* start(): `self._timeout_thread = threading.Thread(...)` and its start():
\* a new thread stands at the top of _monitor_timeouts
ServiceStartThread(c) ==
    /\ pc[c] = "service_start_thread"
    /\ Len(threads.later) + 1 < MaxThreads
    /\ threads' = [timeout_thread |-> Len(threads.later) + 2,
                   later |-> Append(threads.later, "while")]
    /\ Finish(c, "service_done", IdleFrame, "None")
    /\ UNCHANGED <<now, sme_database, hunts, active_hunts, running, sweep, log>>

\* stop(): `self._running = False`
ServiceStopEnter(c) ==
    /\ pc[c] = "idle"
    /\ running' = FALSE
    /\ pc' = [pc EXCEPT ![c] = "service_stop_test"]
    /\ UNCHANGED <<now, sme_database, hunts, active_hunts, threads, frame, sweep, log>>

\* stop(): `if self._timeout_thread:`
ServiceStopTest(c) ==
    /\ pc[c] = "service_stop_test"
    /\ IF threads.timeout_thread = 0
       THEN Finish(c, "service_done", IdleFrame, "None")
       ELSE /\ pc' = [pc EXCEPT ![c] = "service_stop_join"]
            /\ UNCHANGED frame
    /\ UNCHANGED <<now, sme_database, hunts, active_hunts, running, threads, sweep, log>>

\* stop(): `self._timeout_thread.join(timeout=1.0)` returns, because the
\* thread has ended or because the second is over (the thread sleeps ten
\* seconds a pass), then `self._timeout_thread = None`
ServiceStopJoin(c) ==
    /\ pc[c] = "service_stop_join"
    /\ threads' = [threads EXCEPT !.timeout_thread = 0]
    /\ Finish(c, "service_done", IdleFrame, "None")
    /\ UNCHANGED <<now, sme_database, hunts, active_hunts, running, sweep, log>>

\* _monitor_timeouts on a thread of a later start(): `while self._running:`
LaterWhile(i) ==
    /\ threads.later[i] = "while"
    /\ threads' = [threads EXCEPT !.later[i] = IF running THEN "pass" ELSE "exited"]
    /\ UNCHANGED <<now, sme_database, hunts, active_hunts, running, pc, frame, sweep, log>>

\* ... its pass over the active hunts (there are none) and `time.sleep(10)`
LaterPass(i) ==
    /\ threads.later[i] = "pass"
    /\ threads' = [threads EXCEPT !.later[i] = "while"]
    /\ UNCHANGED <<now, sme_database, hunts, active_hunts, running, pc, frame, sweep, log>>

LifecycleNext ==
    \/ \E c \in Callers :
          \/ ServiceStartEnter(c)
          \/ ServiceStartSet(c)
          \/ ServiceStartThread(c)
          \/ ServiceStopEnter(c)
          \/ ServiceStopTest(c)
          \/ ServiceStopJoin(c)
          \/ Return(c)
    \/ SweepWhile
    \/ SweepList
    \/ SweepFor
    \/ SweepRemove
    \/ \E i \in DOMAIN threads.later : LaterWhile(i) \/ LaterPass(i)

LifecycleSpec == Init /\ [][LifecycleNext]_vars

(***************************************************************************)
(* CandidateSpec: claims on one ticket id by the experts of the directory, *)
(* Carol included, whom no hunt on the loaded directory notifies (she is   *)
(* switched off and others match); calls and sweep passes run one at a     *)
(* time.                                                                   *)
(***************************************************************************)
AllActors == Actors \cup {<<"C", "Carol">>}

CandidateNext ==
    \/ \E c \in Callers :
          /\ OthersQuiet(c)
          /\ \/ \E a \in AllActors : AcceptHuntEnter(c, "t-1", a)
             \/ AcceptHuntLookup(c)
             \/ AcceptTest(c)
             \/ AcceptSet(c)
             \/ AcceptCallback(c)
             \/ AcceptHuntPop(c)
             \/ CancelHunt(c, {"t-1"})
             \/ StartHunt(c, {"t-1"}, ExpertiseArgs, {<<>>})
             \/ Return(c)
    \/ AllQuiet /\ MonitorTimeouts
    \/ AllQuiet /\ ~InPass /\ Tick

CandidateSpec == Init /\ [][CandidateNext]_vars

(***************************************************************************)
(* HangSpec: one hunt on each of two ticket ids and the timeout thread,    *)
(* interleaved step by step, where an on_timeout callback may never return (it is the  *)
(* caller's code: a say() that blocks on the network).  Every thread that  *)
(* can take a step is scheduled again; a callback that hangs takes none.   *)
(***************************************************************************)
\* HuntRequest.expire: `self.on_timeout_callback()` is entered and does
\* not return; the timeout thread stays inside it
ExpireCallbackHangs ==
    /\ sweep.pc = "expire_callback"
    /\ log' = [log EXCEPT ![sweep.hunt].on_timeout = @ + 1]
    /\ sweep' = [sweep EXCEPT !.pc = "hung"]
    /\ UNCHANGED <<now, sme_database, hunts, active_hunts, running, threads, pc, frame>>

\* the ticket ids no hunt was started for yet
FreshTickets == {t \in TicketIds : LatestHunt(t) = 0}

HangNext ==
    \/ \E c \in Callers :
          \/ StartHunt(c, FreshTickets, {<<"billing">>}, {<<>>})
          \/ Return(c)
    \/ MonitorTimeouts
    \/ ExpireCallbackHangs
    \/ Tick

HangSpec ==
    /\ Init /\ [][HangNext]_vars
    /\ WF_vars(MonitorTimeouts)
    /\ WF_vars(Tick)
    /\ \A c \in Callers : WF_vars(Continue(c))

(***************************************************************************)
(* RaiseSpec: as HangSpec, where an on_timeout callback may raise instead  *)
(* (a say() that fails with a Slack API error).                            *)
(***************************************************************************)
\* HuntRequest.expire: `self.on_timeout_callback()` raises.  Neither
\* expire() nor _monitor_timeouts catches anything: the exception ends the
\* thread's target and with it the timeout thread.
ExpireCallbackRaises ==
    /\ sweep.pc = "expire_callback"
    /\ log' = [log EXCEPT ![sweep.hunt].on_timeout = @ + 1]
    /\ sweep' = [sweep EXCEPT !.pc = "raised"]
    /\ UNCHANGED <<now, sme_database, hunts, active_hunts, running, threads, pc, frame>>

RaiseNext ==
    \/ \E c \in Callers :
          \/ StartHunt(c, FreshTickets, {<<"billing">>}, {<<>>})
          \/ Return(c)
    \/ MonitorTimeouts
    \/ ExpireCallbackRaises
    \/ Tick

RaiseSpec ==
    /\ Init /\ [][RaiseNext]_vars
    /\ WF_vars(MonitorTimeouts)
    /\ WF_vars(Tick)
    /\ \A c \in Callers : WF_vars(Continue(c))

(***************************************************************************)
(* Properties                                                              *)
(***************************************************************************)
AcceptPcs == {"accept_lookup", "accept_test", "accept_set", "accept_callback",
              "accept_pop", "accept_done"}

\* C1: of the accept_hunt calls on one hunt, at most one returns True, the
\* hunt's on_accept is invoked at most once, and once a call has returned
\* True the one invocation carries the id and name of that call's expert.
C1_ExactlyOneAcceptance ==
    \A h \in HuntIds :
        /\ Len(log[h].returned_true) <= 1
        /\ Len(log[h].on_accept) <= 1
        /\ log[h].returned_true # <<>> => log[h].on_accept = log[h].returned_true

\* C2: for every hunt on_accept is invoked at most once, on_timeout at most
\* once, and never both.
C2_CallbacksExclusive ==
    \A h \in HuntIds :
        /\ Len(log[h].on_accept) <= 1
        /\ log[h].on_timeout <= 1
        /\ ~(Len(log[h].on_accept) >= 1 /\ log[h].on_timeout >= 1)

\* C3: no hunt has both accepted_by set and is_expired true.
C3_SettledOneWay ==
    \A h \in HuntIds : ~(hunts[h].accepted_by # "None" /\ hunts[h].is_expired)

\* C4: settlement is permanent: accepted_by, once set, keeps its value, and
\* is_expired, once true, stays true.
C4_SettlementPermanent ==
    [][\A h \in HuntIds :
          /\ hunts[h].accepted_by # "None" =>
                 hunts'[h].accepted_by = hunts[h].accepted_by
          /\ hunts[h].is_expired => hunts'[h].is_expired]_vars

\* C6: an accept_hunt call that started when its ticket's hunt was already
\* expired, no hunt having been started for the ticket since, sets nothing,
\* invokes no on_accept, and returns False.
C6_ClaimAfterTimeoutFails ==
    \A c \in Callers :
        (/\ pc[c] \in AcceptPcs
         /\ frame[c].expired0 # 0
         /\ LatestHunt(frame[c].ticket_id) = frame[c].expired0)
        => /\ pc[c] \notin {"accept_set", "accept_callback", "accept_pop"}
           /\ pc[c] = "accept_done" => frame[c].ret = "False"

\* C9: accept_hunt always completes by returning a boolean: it never
\* raises, whatever ran between its membership test and its lookup.
C9_AcceptNeverRaises ==
    \A c \in Callers :
        pc[c] = "accept_done" => frame[c].ret \in {"True", "False"}

\* a hunt that was claimed, cancelled or replaced
Excused(h) ==
    \/ hunts[h].accepted_by # "None"
    \/ log[h].cancelled
    \/ LatestHunt(hunts[h].ticket_id) # h

\* the hunt's on_timeout has been invoked exactly once and get_active_hunt
\* returns None for its ticket id
TimedOutOnce(h) ==
    /\ log[h].on_timeout = 1
    /\ get_active_hunt(hunts[h].ticket_id) = 0

\* C5: with the sweep running, a hunt whose expiry time passes and that is
\* never claimed, cancelled or replaced has, from some time on and for
\* ever, had its on_timeout invoked exactly once and is no longer active.
C5_TimeoutFiresOnce ==
    \A h \in 1..MaxHunts :
        (h \in HuntIds /\ hunts[h].expires_at < MaxTime)
            ~> [](h \in HuntIds /\ (Excused(h) \/ TimedOutOnce(h)))

\* C7: run without interference, accept_hunt on an active, unsettled hunt
\* returns True, sets accepted_by to the expert's id, invokes on_accept once
\* with (expert_id, expert_name) and removes the hunt; an accept_hunt that
\* finds no active, unsettled hunt (so every later one on that id) returns
\* False, and no hunt sees a second True.
C7_AcceptSucceedsOnce ==
    /\ \A c \in Callers :
          pc[c] = "accept_done" =>
              IF frame[c].unsettled0 # 0
              THEN /\ frame[c].ret = "True"
                   /\ hunts[frame[c].unsettled0].accepted_by = frame[c].expert_id
                   /\ log[frame[c].unsettled0].on_accept =
                          << <<frame[c].expert_id, frame[c].expert_name>> >>
                   /\ get_active_hunt(frame[c].ticket_id) = 0
              ELSE frame[c].ret = "False"
    /\ \A h \in HuntIds : Len(log[h].returned_true) <= 1

C7_Witness ==
    \E c \in Callers :
        /\ pc[c] = "accept_done"
        /\ frame[c].unsettled0 # 0
        /\ frame[c].ret = "True"
        /\ log[frame[c].unsettled0].on_accept # <<>>

\* C8: accept_hunt on a ticket id with no active hunt returns False in its
\* first step, and that step leaves the active hunts, every hunt's fields
\* and every callback record as they were.
C8_AcceptAbsentIsNoOp ==
    [][\A c \in Callers :
          (/\ pc[c] = "idle"
           /\ pc'[c] \in AcceptPcs
           /\ ~DictHas(active_hunts, frame'[c].ticket_id))
          => /\ pc'[c] = "accept_done"
             /\ frame'[c].ret = "False"
             /\ active_hunts' = active_hunts
             /\ hunts' = hunts
             /\ log' = log]_vars

\* an accept_hunt that found no active hunt (the ticket's hunt was claimed
\* before) has returned False
C8_Witness ==
    \E c \in Callers :
        /\ pc[c] = "accept_done"
        /\ frame[c].ret = "False"
        /\ frame[c].hunt = 0
        /\ Settlement(LatestHunt(frame[c].ticket_id)) = "accepted"
        /\ get_active_hunt(frame[c].ticket_id) = 0

\* C10: no step of cancel_hunt changes a hunt's fields or invokes a
\* callback; when it returns (None, never an exception) its ticket id has
\* no active hunt and the other ids' hunts are as before; on an id with no
\* active hunt it returns at once and changes nothing.
C10_CancelRemovesOnly ==
    [][\A c \in Callers :
          (pc[c] \in {"idle", "cancel_pop"} /\ pc'[c] \in {"cancel_pop", "cancel_done"})
          => /\ hunts' = hunts
             /\ \A h \in HuntIds : /\ log'[h].on_accept = log[h].on_accept
                                   /\ log'[h].on_timeout = log[h].on_timeout
             /\ \A t \in TicketIds \ {frame'[c].ticket_id} :
                    DictLookup(active_hunts', t) = DictLookup(active_hunts, t)
             /\ pc'[c] = "cancel_done" =>
                    /\ frame'[c].ret = "None"
                    /\ ~DictHas(active_hunts', frame'[c].ticket_id)
             /\ ~DictHas(active_hunts, frame'[c].ticket_id) =>
                    /\ pc'[c] = "cancel_done"
                    /\ active_hunts' = active_hunts
                    /\ log' = log]_vars

\* a cancel_hunt has returned and the hunt it removed is unsettled
C10_Witness ==
    \E c \in Callers :
        /\ pc[c] = "cancel_done"
        /\ LatestHunt(frame[c].ticket_id) # 0
        /\ log[LatestHunt(frame[c].ticket_id)].cancelled
        /\ Settlement(LatestHunt(frame[c].ticket_id)) = "unsettled"
        /\ get_active_hunt(frame[c].ticket_id) = 0

\* C11: once cancel_hunt has removed a hunt from the active set, that
\* hunt's on_accept is not invoked any more (a claim that lost to the
\* cancel does not go on to accept the hunt).
C11_NoAcceptAfterCancel ==
    [][\A h \in HuntIds :
          log[h].cancelled => log'[h].on_accept = log[h].on_accept]_vars

(***************************************************************************)
(* The directory's contract, stated on the directory itself                *)
(***************************************************************************)
\* the expert shares a tag with the list, case-insensitively, or the list
\* is empty
SharesTag(e, tags) ==
    \/ tags = <<>>
    \/ \E i \in DOMAIN tags, j \in DOMAIN e.expertise :
          Lower(tags[i]) = Lower(e.expertise[j])

\* availability true and current_load < max_concurrent_issues
CanTakeWork(e) == e.availability = TRUE /\ e.current_load < e.max_concurrent_issues

\* the ids of the experts of the directory that match the list
MatchingIds(tags, available_only) ==
    {sme_database[i].slack_id :
        i \in {k \in DOMAIN sme_database :
                  /\ SharesTag(sme_database[k], tags)
                  /\ available_only => CanTakeWork(sme_database[k])}}

\* C12: after start_hunt returns, the notified set is empty only if no
\* expert of the directory matches the required expertise; when no
\* available expert matches, the notified set is the ids of all matching
\* experts, available or not.
C12_FallbackNotifiesAll ==
    \A c \in Callers :
        pc[c] = "start_done" =>
            LET notified == hunts[frame[c].hunt].notified_experts
                tags == frame[c].required_expertise
            IN  /\ notified = {} => MatchingIds(tags, FALSE) = {}
                /\ MatchingIds(tags, TRUE) = {} =>
                       notified = MatchingIds(tags, FALSE)

C12_Witness ==
    \E c \in Callers :
        /\ pc[c] = "start_done"
        /\ MatchingIds(frame[c].required_expertise, TRUE) = {}
        /\ hunts[frame[c].hunt].notified_experts # {}

\* C13: when some available expert matches, the notified set of the hunt
\* start_hunt returns is the ids of the available matching experts.
C13_NotifiesAvailableOnly ==
    \A c \in Callers :
        (pc[c] = "start_done" /\ MatchingIds(frame[c].required_expertise, TRUE) # {})
        => hunts[frame[c].hunt].notified_experts =
               MatchingIds(frame[c].required_expertise, TRUE)

C13_Witness ==
    \E c \in Callers :
        /\ pc[c] = "start_done"
        /\ MatchingIds(frame[c].required_expertise, TRUE) # {}
        /\ MatchingIds(frame[c].required_expertise, FALSE) #
               MatchingIds(frame[c].required_expertise, TRUE)
        /\ hunts[frame[c].hunt].notified_experts # {}

\* C14: find_experts_by_expertise returns, each once, exactly the experts
\* that share a tag with the list case-insensitively (all, for the empty
\* list) and, with available_only, that are available with
\* current_load < max_concurrent_issues; no match gives the empty list.
C14_MatchesExactly ==
    \A c \in Callers :
        pc[c] = "find_done" =>
            LET ids == MatchingIds(frame[c].required_expertise, frame[c].available_only)
            IN  /\ SeqRange(frame[c].todo) = ids
                /\ Len(frame[c].todo) = Cardinality(ids)

\* a query for available experts that matched by a tag in another case and
\* left out an expert whose load is at its maximum
C14_Witness ==
    \E c \in Callers :
        /\ pc[c] = "find_done"
        /\ frame[c].available_only
        /\ frame[c].required_expertise = <<"Billing">>
        /\ frame[c].todo # <<>>
        /\ \E i \in DOMAIN sme_database :
              /\ sme_database[i].availability
              /\ sme_database[i].current_load >= sme_database[i].max_concurrent_issues
              /\ SharesTag(sme_database[i], frame[c].required_expertise)
        /\ \E i \in DOMAIN sme_database :
              /\ sme_database[i].slack_id \in SeqRange(frame[c].todo)
              /\ "Billing" \notin SeqRange(sme_database[i].expertise)

\* the expert's rating for a tag: tags are case-insensitive; 0 when the
\* expert has no rating for the tag
RatingFor(e, tag) ==
    LET K == {k \in DOMAIN e.skills_rating : Lower(k) = Lower(tag)}
    IN  IF K = {} THEN 0 ELSE e.skills_rating[CHOOSE k \in K : TRUE]

RatingSum(e, tags) == SumSeq([i \in DOMAIN tags |-> RatingFor(e, tags[i])])

\* the place in the directory of the expert with a slack id
PlaceOf(id) == CHOOSE i \in DOMAIN sme_database : sme_database[i].slack_id = id

\* C15: the list find_experts_by_expertise returns is in descending order
\* of the sum of the experts' ratings over the required tags, then in
\* ascending order of current_load, then in directory order.
C15_RankedByRatingThenLoad ==
    \A c \in Callers :
        pc[c] = "find_done" =>
            \A i, j \in DOMAIN frame[c].todo :
                i < j =>
                    LET a == sme_database[PlaceOf(frame[c].todo[i])]
                        b == sme_database[PlaceOf(frame[c].todo[j])]
                        sa == RatingSum(a, frame[c].required_expertise)
                        sb == RatingSum(b, frame[c].required_expertise)
                    IN  \/ sa > sb
                        \/ sa = sb /\ a.current_load < b.current_load
                        \/ /\ sa = sb
                           /\ a.current_load = b.current_load
                           /\ PlaceOf(a.slack_id) < PlaceOf(b.slack_id)

\* C16: start_hunt on a ticket id makes the new hunt the active hunt of the
\* id, as it is stored and still when start_hunt returns; no step of
\* start_hunt changes accepted_by or is_expired of any other hunt (the one
\* it replaces included) or invokes a callback.
C16_ReplacesWithoutSettling ==
    [][\A c \in Callers :
          /\ (pc[c] = "idle" /\ pc'[c] = "start_mark") =>
                /\ frame'[c].hunt \notin HuntIds
                /\ DictLookup(active_hunts', frame'[c].ticket_id) = frame'[c].hunt
                /\ \A h \in HuntIds :
                      /\ hunts'[h] = hunts[h]
                      /\ log'[h].on_accept = log[h].on_accept
                      /\ log'[h].on_timeout = log[h].on_timeout
                      /\ log'[h].returned_true = log[h].returned_true
                /\ log'[frame'[c].hunt].on_accept = <<>>
                /\ log'[frame'[c].hunt].on_timeout = 0
          /\ (pc[c] = "start_mark" /\ pc'[c] = "start_done") =>
                /\ DictLookup(active_hunts', frame'[c].ticket_id) = frame'[c].hunt
                /\ \A h \in HuntIds :
                      /\ hunts'[h].accepted_by = hunts[h].accepted_by
                      /\ hunts'[h].is_expired = hunts[h].is_expired
                /\ log' = log]_vars

\* start_hunt has returned a hunt that replaced an active one: the older
\* hunt of the ticket id is unsettled, was not cancelled, and is not active
C16_Witness ==
    \E c \in Callers, old \in HuntIds :
        /\ pc[c] = "start_done"
        /\ old < frame[c].hunt
        /\ hunts[old].ticket_id = frame[c].ticket_id
        /\ Settlement(old) = "unsettled"
        /\ ~log[old].cancelled
        /\ log[old].on_accept = <<>> /\ log[old].on_timeout = 0
        /\ get_active_hunt(frame[c].ticket_id) = frame[c].hunt

\* C17: no step of start_hunt, accept_hunt, cancel_hunt or the sweep
\* changes the directory: the experts, their order, and every expert's
\* current_load, availability, tags and ratings stay as loaded.
C17_DirectoryUntouched == [][sme_database' = sme_database]_vars

\* an expert of the directory has won a hunt
C17_Witness ==
    \E c \in Callers, i \in DOMAIN sme_database :
        /\ pc[c] = "accept_done"
        /\ frame[c].ret = "True"
        /\ sme_database[i].slack_id = frame[c].expert_id
        /\ hunts[frame[c].hunt].accepted_by = frame[c].expert_id

\* the timeout start_hunt was asked for: the override when one was given,
\* else the configured default
RequestedTimeout(h) ==
    IF log[h].timeout_arg = <<>> THEN hunt_timeout_minutes
    ELSE log[h].timeout_arg[1]

\* C18: a hunt's expires_at is its created_at plus the timeout (the
\* override given to start_hunt, else the configured default), and no step
\* changes the expires_at of a hunt.
C18_ExpiryFixedAtCreation ==
    [][/\ \A h \in 1..Len(hunts') :
             hunts'[h].expires_at = hunts'[h].created_at + RequestedTimeout(h)'
       /\ \A h \in HuntIds : hunts'[h].expires_at = hunts[h].expires_at]_vars

\* C19: start_hunt with a zero or negative timeout_minutes creates no
\* hunt: every hunt that exists was started with no override or with a
\* positive one.
C19_NonPositiveTimeoutRejected ==
    \A h \in HuntIds : log[h].timeout_arg = <<>> \/ log[h].timeout_arg[1] > 0

\* C20: when a /claim handler has finished, it has sent exactly one reply:
\* for an empty text the usage message, and no claim was made; otherwise
\* the success message if accept_hunt returned True and the failure
\* message if not.
C20_ClaimAlwaysAnswered ==
    \A c \in Callers :
        pc[c] = "claim_done" =>
            IF frame[c].ticket_id = ""
            THEN frame[c].replies = <<"usage">> /\ frame[c].hunt = 0
            ELSE \/ frame[c].ret = "True" /\ frame[c].replies = <<"success">>
                 \/ frame[c].ret # "True" /\ frame[c].replies = <<"failure">>

\* the hunt is the active hunt of its ticket id, unsettled, and past its
\* expiry time
DueForTimeout(h) ==
    /\ h \in HuntIds
    /\ get_active_hunt(hunts[h].ticket_id) = h
    /\ Settlement(h) = "unsettled"
    /\ is_timed_out(h)

\* the hunt's on_timeout has been invoked and the hunt is out of the
\* active set
TimedOutAndRemoved(h) ==
    /\ h \in HuntIds
    /\ log[h].on_timeout >= 1
    /\ get_active_hunt(hunts[h].ticket_id) # h

\* C21: a hunt that is active, unclaimed and past its expiry eventually has
\* its on_timeout invoked and is removed from the active set, also while
\* the on_timeout callback of another hunt does not return (the hunt whose
\* own callback hangs, and a hunt that was replaced, are not counted).
C21_SlowCallbackDoesNotStall ==
    \A h \in 1..MaxHunts :
        DueForTimeout(h) ~>
            \/ TimedOutAndRemoved(h)
            \/ h \in HuntIds /\ sweep.pc = "hung" /\ sweep.hunt = h
            \/ h \in HuntIds /\ LatestHunt(hunts[h].ticket_id) # h

\* C22: in every reachable state the active hunt of a ticket id, if any,
\* is unsettled: its accepted_by is unset and its is_expired is false.
C22_ActiveOnlyUnsettled ==
    \A t \in TicketIds :
        Settlement(get_active_hunt(t)) \in {"no hunt", "unsettled"}

\* C23: a hunt whose is_expired is set, or whose on_timeout was invoked,
\* is past its expiry time: the current time is strictly greater than its
\* expires_at; and the timeout thread is inside expire() only for such a
\* hunt.
C23_ExpiresOnlyWhenDue ==
    /\ \A h \in HuntIds :
          (hunts[h].is_expired \/ log[h].on_timeout >= 1) => now > hunts[h].expires_at
    /\ sweep.pc \in {"expire_test", "expire_set", "expire_callback"} =>
          now > hunts[sweep.hunt].expires_at

\* a hunt was expired in the first minute after its expiry time
C23_Witness ==
    \E h \in HuntIds :
        /\ hunts[h].is_expired
        /\ log[h].on_timeout = 1
        /\ now = hunts[h].expires_at + 1

\* C24: once start_hunt has replaced an active hunt by a new hunt of the
\* same ticket id, neither on_timeout nor on_accept of the replaced hunt is
\* invoked any more.
C24_ReplacedHuntStaysSilent ==
    [][\A h \in HuntIds :
          log[h].replaced =>
              /\ log'[h].on_accept = log[h].on_accept
              /\ log'[h].on_timeout = log[h].on_timeout]_vars

\* C25: a hunt that is the latest of its ticket id, unsettled and not
\* cancelled is the active hunt of its id: no sweep pass and no claim that
\* settled an earlier hunt of the id has removed it.
C25_OnlySettledHuntRemoved ==
    \A h \in HuntIds :
        (/\ LatestHunt(hunts[h].ticket_id) = h
         /\ Settlement(h) = "unsettled"
         /\ ~log[h].cancelled)
        => get_active_hunt(hunts[h].ticket_id) = h

\* C26: once cancel_hunt has removed a hunt and returned, that hunt's
\* on_timeout is not invoked any more.
C26_NoTimeoutAfterCancel ==
    [][\A h \in HuntIds :
          log[h].cancelled => log'[h].on_timeout = log[h].on_timeout]_vars

C28_OnlyCandidateWins ==
    \A h \in HuntIds :
        hunts[h].accepted_by # "None" => hunts[h].accepted_by \in hunts[h].notified_experts

\* C28 (amended): accept_hunt never reads notified_experts.  Run without
\* interference, accept_hunt on an active, unsettled hunt returns True and
\* records the caller as accepted_by whoever the caller is, notified for
\* the hunt or not.
C28_AnyExpertWins ==
    \A c \in Callers :
        (pc[c] = "accept_done" /\ frame[c].unsettled0 # 0)
        => /\ frame[c].ret = "True"
           /\ hunts[frame[c].unsettled0].accepted_by = frame[c].expert_id
           /\ log[frame[c].unsettled0].returned_true =
                  << <<frame[c].expert_id, frame[c].expert_name>> >>

\* an expert who was not notified for the hunt has won it
C28_Witness ==
    \E c \in Callers :
        /\ pc[c] = "accept_done"
        /\ frame[c].ret = "True"
        /\ frame[c].unsettled0 # 0
        /\ frame[c].expert_id \notin hunts[frame[c].unsettled0].notified_experts
        /\ hunts[frame[c].unsettled0].accepted_by = frame[c].expert_id

\* the timeout threads that are inside the loop of _monitor_timeouts: past
\* `while self._running` and not yet back at it
ThreadsInLoop ==
    (IF sweep.pc \notin {"while", "exited"} THEN 1 ELSE 0)
    + Cardinality({i \in DOMAIN threads.later : threads.later[i] = "pass"})

\* C29: over any sequence of start() and stop() calls, at most one timeout
\* thread is running the sweep loop.
C29_OneSweepThread == ThreadsInLoop <= 1

\* C30: also when an on_timeout callback raises, every hunt that is
\* active, unclaimed and past its expiry eventually has its on_timeout
\* invoked and is removed from the active set: the hunt whose callback
\* raised, and the hunts that time out after it.
C30_RaisingCallbackDoesNotStopSweep ==
    \A h \in 1..MaxHunts : DueForTimeout(h) ~> TimedOutAndRemoved(h)

\* the slack ids of a list of experts, in order
SlackIds(experts) == [i \in DOMAIN experts |-> experts[i].slack_id]

\* the directory's own ranking for the tags: the available matching
\* experts, or every matching expert when none is available
DirectoryRanking(tags) ==
    LET available == find_experts_by_expertise(sme_database, tags, TRUE)
    IN  IF available = <<>>
        THEN find_experts_by_expertise(sme_database, tags, FALSE)
        ELSE available

C32_ExpertiseAreasOrTopic ==
    \A c \in Callers :
        pc[c] \in {"sme_mark", "sme_say", "sme_done"} =>
            LET info == frame[c].extracted_info
            IN  frame[c].expertise_areas =
                    IF info.expertise_areas.type = "list"
                       /\ info.expertise_areas.items # <<>>
                    THEN info.expertise_areas
                    ELSE IF info.topic # Absent
                         THEN List(info.topic.items)
                         ELSE List(<<>>)

====
